---- MODULE Spec2Model ----
(***************************************************************************)
(* Model of function_tvb.py: the TvbSim adapter that builds a TVB          *)
(* simulator with proxy regions (tvb_model, tvb_init) and advances it one  *)
(* synchronisation window per call (tvb_simulation).                       *)
(*                                                                         *)
(* numpy arrays are records [shape, data]: shape is the tuple of           *)
(* dimensions and data the elements in row-major (C) order.  numpy         *)
(* strings are tuples of characters, so that the fixed item width of a     *)
(* numpy string array is visible.  Python's 0-based index i is position    *)
(* i + 1 of a TLA+ sequence.                                               *)
(***************************************************************************)
EXTENDS Integers, Sequences, FiniteSets, TLC

\* ---------------------------------------------------------------- bounds
MaxN == 2         \* regions of the connectivity: 0..MaxN
MaxProxy == 2     \* length of the id_proxy list: 0..MaxProxy
MaxCalls == 2     \* calls made on one adapter

\* ------------------------------------------------------- numpy primitives
RECURSIVE Prod(_)
\* Number of elements of an array of the given shape.
Prod(shape) == IF shape = <<>> THEN 1 ELSE Head(shape) * Prod(Tail(shape))

\* The array of the given shape holding base+1, base+2, ... in C order.
Arange(shape, base) == [shape |-> shape, data |-> [k \in 1..Prod(shape) |-> base + k]]

\* Stands for Python's None where an array is expected.
NoArray == [shape |-> <<-1>>, data |-> <<>>]

\* Python strings as tuples of characters.
STR_real == <<"r", "e", "a", "l">>
STR_proxy == <<"p", "r", "o", "x", "y">>

\* numpy stores a string into a fixed-width unicode array ('<U4' for
\* ['real']) by cutting it to the item width.
StoreStr(s, width) == IF Len(s) <= width THEN s ELSE SubSeq(s, 1, width)

\* np.repeat(['real'], n): n items of dtype '<U4'.
NpRepeat(s, n) == [i \in 1..n |-> s]

\* a[idx] = s with a list of integer indices (fancy assignment): an index
\* outside -n..n-1 raises IndexError and nothing is stored; a negative index
\* counts from the end; a repeated index is stored more than once.
FancyIndexOk(n, idx) == \A k \in 1..Len(idx) : idx[k] >= -n /\ idx[k] < n

NormIndex(n, i) == IF i < 0 THEN i + n ELSE i

FancyAssign(a, idx, s, width) ==
    [i \in 1..Len(a) |->
        IF \E k \in 1..Len(idx) : NormIndex(Len(a), idx[k]) = i - 1
        THEN StoreStr(s, width)
        ELSE a[i]]

\* ------------------------------------------------------------- tvb_model
\* region_label built by tvb_model for a weight matrix with n rows.
RegionLabels(n, id_proxy) ==
    FancyAssign(NpRepeat(STR_real, n), id_proxy, STR_proxy, Len(STR_real))

\* tvb_model: raises IndexError from the label assignment, otherwise hands
\* the connectivity (labels, weights, tract lengths) and id_proxy on.
tvb_model(weightShape, delayShape, id_proxy) ==
    IF ~FancyIndexOk(weightShape[1], id_proxy)
    THEN [exc |-> "IndexError", region_label |-> <<>>,
          weights |-> weightShape, tract_lengths |-> delayShape, id_proxy |-> id_proxy]
    ELSE [exc |-> "none", region_label |-> RegionLabels(weightShape[1], id_proxy),
          weights |-> weightShape, tract_lengths |-> delayShape, id_proxy |-> id_proxy]

\* The library's Connectivity/Simulator.configure accept a connectivity
\* whose weights and tract lengths have the same square shape.
LibAccepts(m) == m.weights = m.tract_lengths

\* Variant of NbNode that forgets to subtract the proxies.
NbNodeNoProxy(weightShape, id_proxy) == weightShape[1]

\* self.nb_node = weight.shape[0] - len(id_proxy)
NbNode(weightShape, id_proxy) == weightShape[1] - Len(id_proxy)

\* -------------------------------------------------------------- tvb_init
NoSim == [id |-> 0, configured |-> 0, t |-> 0, nvar |-> 0, nmode |-> 0, nreg |-> 0]

\* tvb_init: one Simulator is created with the raw monitor and the proxy
\* monitor, and configured once.
tvb_init(m, nvar, nmode) ==
    [id |-> 1, configured |-> 1, t |-> 0, nvar |-> nvar, nmode |-> nmode,
     nreg |-> m.weights[1]]

\* -------------------------------------------------------- tvb_simulation
\* A proxy_data argument: the list [time_labels, values] the caller built,
\* known by its identity id; id 0 is Python's None.
NoneData == [id |-> 0, labels |-> NoArray, values |-> NoArray]

\* Variant of NeedsReshape without the test for None.
NeedsReshapeAlways(data_proxy) == TRUE

\* "if data_proxy is not None"
NeedsReshape(data_proxy) == data_proxy.id # 0

\* np.reshape(a, (a.shape[0], a.shape[1], 1, 1)): reading shape[1] of an
\* array with fewer than two dimensions raises IndexError; a target shape
\* with another number of elements raises ValueError; otherwise the
\* elements keep their order under the new shape.
ReshapeExc(a) ==
    IF Len(a.shape) < 2 THEN "IndexError"
    ELSE IF Prod(a.shape) # a.shape[1] * a.shape[2] THEN "ValueError"
    ELSE "none"

\* Variant of Reshape4 that appends two axes to whatever shape it gets
\* (a[..., None, None]).
ReshapeExpandDims(a) == [shape |-> a.shape \o <<1, 1>>, data |-> a.data]

\* Variant of Reshape4 that does not keep the order of the elements.
ReshapeTransposed(a) ==
    [shape |-> <<a.shape[1], a.shape[2], 1, 1>>,
     data |-> [k \in 1..Len(a.data) |-> a.data[Len(a.data) + 1 - k]]]

\* The array np.reshape returns when it does not raise.
Reshape4(a) == [shape |-> <<a.shape[1], a.shape[2], 1, 1>>, data |-> a.data]

\* Lines 110-111: the reshape step.  attempted says whether line 111 was
\* executed; data_proxy is the caller's list after the step (element 1 is
\* replaced in place, element 0 is not touched).
ReshapeStep(data_proxy) ==
    IF ~NeedsReshape(data_proxy)
    THEN [attempted |-> FALSE, exc |-> "none", data_proxy |-> data_proxy]
    ELSE IF data_proxy.id = 0
    THEN [attempted |-> TRUE, exc |-> "TypeError", data_proxy |-> data_proxy]
    ELSE IF ReshapeExc(data_proxy.values) # "none"
    THEN [attempted |-> TRUE, exc |-> ReshapeExc(data_proxy.values),
          data_proxy |-> data_proxy]
    ELSE [attempted |-> TRUE, exc |-> "none",
          data_proxy |-> [data_proxy EXCEPT !.values = Reshape4(data_proxy.values)]]

\* Variant of RunKwargs that runs one step whatever the time argument.
RunKwargsFixedLength(time, data_proxy) ==
    [proxy_data |-> data_proxy, simulation_length |-> 1]

\* Keyword arguments of sim.run on line 112.
RunKwargs(time, data_proxy) ==
    [proxy_data |-> data_proxy, simulation_length |-> time]

\* Simulator.run of the library: it either raises libExc and leaves the
\* simulator where it was, or integrates simulation_length steps and
\* returns one [times, data] pair per monitor.  Only the raw monitor's
\* pair, result[0], is read by the adapter: times holds one timestamp per
\* step and data has the layout (samples, state variables, regions, modes).
SimRun(s, kwargs, libExc) ==
    IF libExc # "none"
    THEN [exc |-> libExc, sim |-> s, result |-> <<<<NoArray, NoArray>>>>]
    ELSE [exc |-> "none",
          sim |-> [s EXCEPT !.t = s.t + kwargs.simulation_length],
          result |-> <<<<Arange(<<kwargs.simulation_length>>, s.t),
                        Arange(<<kwargs.simulation_length, s.nvar, s.nreg, s.nmode>>,
                               100 * s.t)>>>>]

\* a[:, 0]: every index of the first axis, index 0 of the second axis, the
\* axes after the second kept.
SliceColon0Exc(a) ==
    IF Len(a.shape) < 2 THEN "IndexError"
    ELSE IF a.shape[2] < 1 THEN "IndexError"
    ELSE "none"

InnerSize(a) == Prod(SubSeq(a.shape, 3, Len(a.shape)))

\* a[0, 0]: the first sample's first state variable only.
SliceFirstSample(a) ==
    [shape |-> SubSeq(a.shape, 3, Len(a.shape)),
     data |-> SubSeq(a.data, 1, InnerSize(a))]

SliceColon0(a) ==
    [shape |-> <<a.shape[1]>> \o SubSeq(a.shape, 3, Len(a.shape)),
     data |-> [k \in 1..(a.shape[1] * InnerSize(a)) |->
                 a.data[((k - 1) \div InnerSize(a)) * (a.shape[2] * InnerSize(a))
                        + ((k - 1) % InnerSize(a)) + 1]]]

\* Variant of ReturnedTime that hands back the time argument of the call.
ReturnedTimeArgument(result, time) == [shape |-> <<1>>, data |-> <<time>>]

\* time = result[0][0]
ReturnedTime(result, time) == result[1][1]

\* Variant of ReturnedState that keeps the first sample only.
ReturnedStateFirstSample(result) == SliceFirstSample(result[1][2])

\* s = result[0][1][:, 0]
ReturnedState(result) == SliceColon0(result[1][2])

\* Variant of Propagate that catches what sim.run raises.
PropagateSwallowRun(reshapeExc, runExc, sliceExc) ==
    IF reshapeExc # "none" THEN reshapeExc ELSE sliceExc

\* No statement of tvb_simulation or __call__ is inside a try block: the
\* first exception raised by a step leaves the call.
Propagate(reshapeExc, runExc, sliceExc) ==
    IF reshapeExc # "none" THEN reshapeExc
    ELSE IF runExc # "none" THEN runExc
    ELSE sliceExc

\* Lines 101-115.  libExc is what the library's run does on this call.
\* ran says whether line 112 was reached; ret is the returned (time, s).
tvb_simulation(time, s, data_proxy, libExc) ==
    LET rs == ReshapeStep(data_proxy)
        ran == rs.exc = "none"
        kw == RunKwargs(time, rs.data_proxy)
        run == SimRun(s, kw, libExc)
        runExc == IF ran THEN run.exc ELSE "none"
        sliced == ran /\ run.exc = "none"
        sliceExc == IF sliced THEN SliceColon0Exc(run.result[1][2]) ELSE "none"
        exc == Propagate(rs.exc, runExc, sliceExc)
    IN  [exc |-> exc,
         attempted |-> rs.attempted,
         reshape_exc |-> rs.exc,
         data_proxy |-> rs.data_proxy,
         ran |-> ran,
         kwargs |-> kw,
         run_exc |-> runExc,
         sim |-> IF ran THEN run.sim ELSE s,
         raw |-> IF sliced THEN run.result[1][2] ELSE NoArray,
         ret_time |-> IF ran /\ exc = "none" THEN ReturnedTime(run.result, time) ELSE NoArray,
         ret_state |-> IF ran /\ exc = "none" THEN ReturnedState(run.result) ELSE NoArray]

\* ----------------------------------------------------------------- state
VARIABLES
    pc,            \* "new", "constructed" (TvbSim(...) returned) or "failed" (it raised)
    weight,        \* shape of the weight matrix given to the constructor
    delay,         \* shape of the delay matrix given to the constructor
    id_proxy,      \* the id_proxy list given to the constructor
    region_label,  \* region labels of the connectivity built by tvb_model
    nb_node,       \* self.nb_node
    sim,           \* self.sim, the simulator handle and its simulated time
    sims_created,  \* Simulator objects created so far
    held,          \* the proxy_data list the caller holds (id 0: none yet)
    objs_created,  \* proxy_data lists the caller has created
    calls,         \* one record per call of the adapter, in call order
    runs,          \* one record per invocation of sim.run, in order
    last           \* the last call in detail: arguments before it, run's raw output, result

vars == <<pc, weight, delay, id_proxy, region_label, nb_node, sim, sims_created,
          held, objs_created, calls, runs, last>>

NoCall == [before |-> NoneData, raw |-> NoArray, ret_time |-> NoArray, ret_state |-> NoArray]

\* Lists of at most n elements of S.
Lists(S, n) == UNION {[1..k -> S] : k \in 0..n}

\* Index values offered to the constructor: valid, negative and, for a
\* matrix smaller than MaxN, out of range.
IdxRange == -1..(MaxN - 1)

\* Layouts (state variables, modes) of the raw monitor's output.
Layouts == {<<1, 1>>, <<2, 2>>}

\* Time arguments of a call, in integration steps.
TimeArgs == {1, 2}

\* Shapes of the value array of a proxy_data list: (S, P) as expected, but
\* also one axis only, and more than two axes.
ValueShapes == {<<2>>, <<1, 2>>, <<2, 2>>, <<1, 2, 2>>}

\* Exceptions the library's run may raise.
LibExceptions == {"LibraryError"}

\* TvbSim.__init__ (lines 120-131): the adapter's fields after the
\* constructor ran on the given matrices and id_proxy; nvar and nmode are
\* the layout of the raw monitor's output for the model.
Constructed(n, d, ids, nvar, nmode) ==
    LET m == tvb_model(<<n, n>>, <<d, d>>, ids)
        ok == m.exc = "none" /\ LibAccepts(m)
    IN  [pc |-> IF ok THEN "constructed" ELSE "failed",
         nb_node |-> NbNode(<<n, n>>, ids),
         region_label |-> m.region_label,
         sim |-> IF ok THEN tvb_init(m, nvar, nmode) ELSE NoSim,
         sims_created |-> IF ok THEN 1 ELSE 0]

\* Before the constructor is called.
InitNew ==
    /\ pc = "new"
    /\ weight = <<>>
    /\ delay = <<>>
    /\ id_proxy = <<>>
    /\ region_label = <<>>
    /\ nb_node = 0
    /\ sim = NoSim
    /\ sims_created = 0
    /\ held = NoneData
    /\ objs_created = 0
    /\ calls = <<>>
    /\ runs = <<>>
    /\ last = NoCall

\* The constructor call TvbSim(weight, delay, id_proxy, ...) on inputs
\* chosen by the caller.
TvbSim_init ==
    /\ pc = "new"
    /\ \E n \in 0..MaxN, d \in 0..MaxN, ids \in Lists(IdxRange, MaxProxy),
          layout \in Layouts :
          LET c == Constructed(n, d, ids, layout[1], layout[2])
          IN  /\ weight' = <<n, n>>
              /\ delay' = <<d, d>>
              /\ id_proxy' = ids
              /\ nb_node' = c.nb_node
              /\ region_label' = c.region_label
              /\ sim' = c.sim
              /\ sims_created' = sims_created + c.sims_created
              /\ pc' = c.pc
    /\ UNCHANGED <<held, objs_created, calls, runs, last>>

\* Construction alone, over all the inputs.
SpecConstruct == InitNew /\ [][TvbSim_init]_vars

\* The state after a successful construction: an adapter over n regions
\* whose first p regions are proxies.  The call path reads self.sim only.
Init ==
    \E n \in 0..MaxN, layout \in Layouts :
      \E p \in 0..n :
        LET ids == [k \in 1..p |-> k - 1]
            c == Constructed(n, n, ids, layout[1], layout[2])
        IN  /\ p <= MaxProxy
            /\ pc = c.pc
            /\ weight = <<n, n>>
            /\ delay = <<n, n>>
            /\ id_proxy = ids
            /\ nb_node = c.nb_node
            /\ region_label = c.region_label
            /\ sim = c.sim
            /\ sims_created = c.sims_created
            /\ held = NoneData
            /\ objs_created = 0
            /\ calls = <<>>
            /\ runs = <<>>
            /\ last = NoCall

\* The caller builds a new list [time_labels, values] for its next call.
CallerNewProxyData ==
    /\ pc = "constructed"
    /\ Len(calls) < MaxCalls
    /\ objs_created <= Len(calls)
    /\ \E shape \in ValueShapes :
          held' = [id |-> objs_created + 1,
                   labels |-> Arange(<<shape[1]>>, 0),
                   values |-> Arange(shape, 10)]
    /\ objs_created' = objs_created + 1
    /\ UNCHANGED <<pc, weight, delay, id_proxy, region_label, nb_node, sim,
                   sims_created, calls, runs, last>>

\* TvbSim.__call__ (lines 133-142): one call tvb_sim(time, proxy_data),
\* either without proxy data or with the list the caller holds.
TvbSim_call ==
    /\ pc = "constructed"
    /\ Len(calls) < MaxCalls
    /\ \E time \in TimeArgs, withData \in BOOLEAN, libExc \in LibExceptions \cup {"none"} :
          /\ withData => held.id # 0
          /\ LET dp == IF withData THEN held ELSE NoneData
                 r == tvb_simulation(time, sim, dp, libExc)
             IN  /\ sim' = r.sim
                 /\ held' = IF withData THEN r.data_proxy ELSE held
                 /\ calls' = Append(calls, [time |-> time, pd |-> dp.id,
                                            attempted |-> r.attempted,
                                            reshape_exc |-> r.reshape_exc,
                                            ran |-> r.ran,
                                            exc |-> r.exc,
                                            ret_time |-> r.ret_time])
                 /\ runs' = IF r.ran
                            THEN Append(runs, [call |-> Len(calls) + 1,
                                               sim |-> sim.id,
                                               simulation_length |-> r.kwargs.simulation_length,
                                               proxy_data |-> r.kwargs.proxy_data,
                                               exc |-> r.run_exc])
                            ELSE runs
                 /\ last' = [before |-> dp, raw |-> r.raw,
                             ret_time |-> r.ret_time, ret_state |-> r.ret_state]
    /\ UNCHANGED <<pc, weight, delay, id_proxy, region_label, nb_node, sims_created,
                   objs_created>>

Next == CallerNewProxyData \/ TvbSim_call

Spec == Init /\ [][Next]_vars

\* ------------------------------------------------ construction (C1 - C3)
\* The constructor was given an N x N weight matrix, a delay matrix of the
\* same shape, and proxy indices all in 0..N-1.
ValidInputs ==
    /\ pc # "new"
    /\ weight = delay
    /\ \A k \in 1..Len(id_proxy) : id_proxy[k] \in 0..(weight[1] - 1)

\* Region r (0-based) is named by id_proxy.
IsProxy(r) == \E k \in 1..Len(id_proxy) : id_proxy[k] = r

\* C1: on an N x N weight matrix, a delay matrix of the same shape and
\* proxy indices in 0..N-1 the constructor succeeds and leaves
\* nb_node = N - len(id_proxy).
C1_ConstructionNbNode ==
    ValidInputs => (pc = "constructed" /\ sim.id # 0
                    /\ nb_node = weight[1] - Len(id_proxy))

C1_Witness ==
    /\ ValidInputs
    /\ pc = "constructed"
    /\ weight = <<2, 2>>
    /\ id_proxy = <<1>>
    /\ nb_node = 1

\* C2: the label at every index of id_proxy is exactly "proxy" and the
\* label at every other index is exactly "real".
C2_LabelsExact ==
    (ValidInputs /\ pc = "constructed") =>
        \A i \in 1..weight[1] :
            region_label[i] = IF IsProxy(i - 1) THEN STR_proxy ELSE STR_real

\* C3: nb_node is the number of regions that tvb_model did not mark as
\* proxy, also when id_proxy names an index more than once.
C3_NbNodeCountsUnmarked ==
    (ValidInputs /\ pc = "constructed") =>
        nb_node = Cardinality({i \in 1..weight[1] : region_label[i] = STR_real})

\* ------------------------------------------------------ calls (C4 - C10)
\* The record of sim.run made by call number c, if that call reached it.
RunsOfCall(c) == {k \in 1..Len(runs) : runs[k].call = c}

\* The last call was made with a proxy_data list whose values are 2-D.
LastHad2D ==
    /\ calls # <<>>
    /\ last.before.id # 0
    /\ Len(last.before.values.shape) = 2

\* C4: values of shape (S, P) reach sim.run as element 1 of proxy_data
\* with the same elements in shape (S, P, 1, 1), and element 0, the time
\* labels, reaches it unchanged.
C4_RunReceivesReshaped ==
    LastHad2D =>
        /\ RunsOfCall(Len(calls)) # {}
        /\ \A k \in RunsOfCall(Len(calls)) :
              /\ runs[k].proxy_data.values.shape =
                    <<last.before.values.shape[1], last.before.values.shape[2], 1, 1>>
              /\ runs[k].proxy_data.values.data = last.before.values.data
              /\ runs[k].proxy_data.labels = last.before.labels

C4_Witness ==
    /\ LastHad2D
    /\ last.before.values.shape = <<2, 2>>
    /\ \E k \in RunsOfCall(Len(calls)) :
          runs[k].proxy_data.values.shape = <<2, 2, 1, 1>>

\* C5: a call with proxy_data=None never executes the reshape line and
\* sim.run is invoked with proxy_data=None.
C5_NoneSkipsReshape ==
    \A c \in 1..Len(calls) :
        calls[c].pd = 0 =>
            /\ ~calls[c].attempted
            /\ RunsOfCall(c) # {}
            /\ \A k \in RunsOfCall(c) : runs[k].proxy_data = NoneData

C5_Witness ==
    \E c \in 1..Len(calls) :
        /\ calls[c].pd = 0
        /\ \E k \in RunsOfCall(c) : runs[k].proxy_data = NoneData

\* Elements of an array as a set.
Elems(a) == {a.data[k] : k \in 1..Len(a.data)}

\* The calls that returned a result.
Returned(c) == calls[c].exc = "none"

\* C6: over successive successful calls the returned time values do not
\* decrease from one call to the next, and simulated time has advanced at
\* least to every time returned.
C6_TimeMonotonic ==
    /\ \A c1 \in 1..Len(calls), c2 \in 1..Len(calls) :
          (c1 < c2 /\ Returned(c1) /\ Returned(c2)) =>
              \A a \in Elems(calls[c1].ret_time), b \in Elems(calls[c2].ret_time) : a <= b
    /\ \A c \in 1..Len(calls) :
          Returned(c) => \A a \in Elems(calls[c].ret_time) : a <= sim.t

C6_Witness ==
    /\ Len(calls) = 2
    /\ Returned(1) /\ Returned(2)
    /\ calls[1].time = 2
    /\ calls[2].time = 1
    /\ Elems(calls[1].ret_time) = {1, 2}
    /\ Elems(calls[2].ret_time) = {3}

\* Element [i, v, r, m] (0-based) of a 4-D array and [i, r, m] of a 3-D one.
Elem4(a, i, v, r, m) ==
    a.data[((i * a.shape[2] + v) * a.shape[3] + r) * a.shape[4] + m + 1]

Elem3(a, i, r, m) == a.data[(i * a.shape[2] + r) * a.shape[3] + m + 1]

\* The last call returned a result sliced from a raw output.
LastReturned == calls # <<>> /\ Returned(Len(calls))

\* C7 as stated: the returned state is a 1-D array with one value per
\* region, the first state variable of the first recorded sample.
C7_StateIsFirstSample1D ==
    LastReturned =>
        /\ last.ret_state.shape = <<last.raw.shape[3]>>
        /\ \A r \in 0..(last.raw.shape[3] - 1) :
              last.ret_state.data[r + 1] = Elem4(last.raw, 0, 0, r, 0)

\* C7 amended: the returned state is state variable 0 of every recorded
\* sample, in layout (samples, regions, modes); only the other state
\* variables are dropped.
C7_StateIsVar0OfAllSamples ==
    LastReturned =>
        /\ Len(last.raw.shape) = 4
        /\ last.ret_state.shape = <<last.raw.shape[1], last.raw.shape[3], last.raw.shape[4]>>
        /\ Len(last.ret_state.data) = last.raw.shape[1] * last.raw.shape[3] * last.raw.shape[4]
        /\ \A i \in 0..(last.raw.shape[1] - 1), r \in 0..(last.raw.shape[3] - 1),
              m \in 0..(last.raw.shape[4] - 1) :
              Elem3(last.ret_state, i, r, m) = Elem4(last.raw, i, 0, r, m)

C7_Witness ==
    /\ LastReturned
    /\ last.raw.shape = <<2, 2, 2, 2>>
    /\ last.ret_state.shape = <<2, 2, 2>>
    /\ Elem3(last.ret_state, 1, 1, 1) = Elem4(last.raw, 1, 0, 1, 1)

\* C8: when sim.run raises during a call, the call raises that same
\* exception and returns no (time, state).
C8_RunExceptionPropagates ==
    \A k \in 1..Len(runs) :
        runs[k].exc # "none" =>
            /\ calls[runs[k].call].exc = runs[k].exc
            /\ calls[runs[k].call].ret_time = NoArray
            /\ (runs[k].call = Len(calls) =>
                    last.ret_time = NoArray /\ last.ret_state = NoArray)

C8_Witness ==
    \E k \in 1..Len(runs) :
        /\ runs[k].exc = "LibraryError"
        /\ calls[runs[k].call].exc = "LibraryError"

\* The handle was created and configured once, by the constructor, and
\* neither it nor nb_node changed since.
HandleStable ==
    /\ sims_created = 1
    /\ sim.id = 1
    /\ sim.configured = 1
    /\ nb_node = NbNode(weight, id_proxy)
    /\ \A k \in 1..Len(runs) : runs[k].sim = sim.id

\* C9 as stated: after n calls the handle has been run exactly n times,
\* in call order, once per call with simulation_length equal to that
\* call's time argument.
C9_OneRunPerCall ==
    /\ HandleStable
    /\ Len(runs) = Len(calls)
    /\ \A k \in 1..Len(runs) :
          runs[k].call = k /\ runs[k].simulation_length = calls[k].time

\* The calls whose reshape step did not raise.
ReachedRun == {c \in 1..Len(calls) : calls[c].reshape_exc = "none"}

\* C9 amended: the handle has been run exactly once per call whose reshape
\* step did not raise, in call order, with simulation_length equal to that
\* call's time argument; a call that raised in the reshape step ran nothing.
C9_OneRunPerCallReachingRun ==
    /\ HandleStable
    /\ Len(runs) = Cardinality(ReachedRun)
    /\ \A c \in 1..Len(calls) :
          Cardinality(RunsOfCall(c)) = IF c \in ReachedRun THEN 1 ELSE 0
    /\ \A k \in 1..Len(runs) :
          /\ runs[k].simulation_length = calls[runs[k].call].time
          /\ \A j \in 1..Len(runs) : j < k => runs[j].call < runs[k].call

C9_Witness ==
    /\ Len(calls) = 2
    /\ Len(runs) = 2
    /\ runs[1].simulation_length = 2
    /\ runs[2].simulation_length = 1
    /\ sim.t = 3

\* C10: the reshape step replaces element 1 of the caller's list in place
\* and leaves element 0; passing the same list to a later call hands
\* sim.run values of the same shape (S, P, 1, 1) and does not raise in the
\* reshape step.
C10_InPlaceIdempotent ==
    /\ (/\ calls # <<>>
        /\ last.before.id # 0
        /\ calls[Len(calls)].reshape_exc = "none"
        /\ held.id = last.before.id) =>
            /\ held.values.shape =
                  <<last.before.values.shape[1], last.before.values.shape[2], 1, 1>>
            /\ held.values.data = last.before.values.data
            /\ held.labels = last.before.labels
    /\ \A c1 \in 1..Len(calls), c2 \in 1..Len(calls) :
          (c1 < c2 /\ calls[c1].pd # 0 /\ calls[c1].pd = calls[c2].pd
                   /\ calls[c1].reshape_exc = "none") =>
              /\ calls[c2].reshape_exc = "none"
              /\ \A k1 \in RunsOfCall(c1), k2 \in RunsOfCall(c2) :
                    /\ Len(runs[k1].proxy_data.values.shape) = 4
                    /\ runs[k2].proxy_data.values = runs[k1].proxy_data.values
                    /\ runs[k2].proxy_data.labels = runs[k1].proxy_data.labels

C10_Witness ==
    /\ Len(calls) = 2
    /\ calls[1].pd = 1 /\ calls[2].pd = 1
    /\ Len(runs) = 2
    /\ runs[1].proxy_data.values.shape = <<2, 2, 1, 1>>
    /\ runs[2].proxy_data.values.shape = <<2, 2, 1, 1>>
    /\ held.values.shape = <<2, 2, 1, 1>>

====
